---- MODULE Spec2Model ----
(***************************************************************************)
(* Model of the hydrometric use-case notebook                              *)
(* (docs/use-case_oafeat-interactive_en.ipynb and its French twin):        *)
(* fetch of the candidate stations, selection of the stations inside the   *)
(* buffer, assembly of one data frame per station, removal of the stations *)
(* without data.  One run of the notebook is one behaviour; the cells run  *)
(* top to bottom and a raised exception ends the run.                      *)
(***************************************************************************)
EXTENDS Integers, Sequences, FiniteSets, TLC

(***************************************************************************)
(* Bounds of the model.                                                    *)
(***************************************************************************)
MaxCandidates == 2      \* features in the station response
MaxBuffer == 5          \* buffer sizes 1..MaxBuffer km, besides the configured one
MaxRecords == 3         \* daily records returned for one station

(***************************************************************************)
(* Parameters cell.                                                        *)
(***************************************************************************)
buffer == 100           \* buffer size in kilometres

\* Station numbers the API may return.
StationNumbers == {"08GA010", "08MH001"}

\* LEVEL values of a daily-mean record; "null" is an absent JSON value,
\* "NaN" the float NaN that pandas puts in its place.
PresentLevels == {"1.2"}
RawLevels == PresentLevels \cup {"null"}

(***************************************************************************)
(* Geometry.  A station point is given by its position relative to the     *)
(* centre point once both are in the projected SRS: its distance in metres *)
(* and whether its bearing runs through a vertex of the buffer polygon or  *)
(* through the middle of one of its edges (the two extremes of the         *)
(* polygon's reach).                                                       *)
(***************************************************************************)
Bearings == {"vertex", "edge"}

\* Positions of the stations of the model: well inside the buffer, between
\* the polygon's edge and the circle, on the circle (at a vertex and on the
\* bearing of an edge), and outside the circle but inside the bounding box.
Positions ==
    {<<10000, "edge">>, <<99980, "edge">>, <<100000, "vertex">>,
     <<100000, "edge">>, <<150000, "edge">>}

InputSRS == "EPSG:4326"
ProjectedSRS == "EPSG:3347"

\* Spatial reference of the layer OGR opens from the response: the EPSG
\* reference of GeoJSON, a reference without authority code, or none at all
\* (a null "crs" member).
LayerSRS == {InputSRS, "unknown", "none"}

Geometries ==
    {[srs |-> InputSRS, dist |-> p[1], bearing |-> p[2]] : p \in Positions}

\* geom.Transform(transform): the point expressed in the target SRS.
Transform(geom, t) ==
    IF geom.srs = t.source THEN [geom EXCEPT !.srs = t.target] ELSE geom

\* OGR's Buffer(distance) approximates each quadrant of the circle by 30
\* segments unless told otherwise: the buffer of a point is the closed
\* regular polygon with 120 vertices on the circle of the given radius.
\* The middle of an edge stays short of the circle by 1 - cos(pi / 120) of
\* the radius: 342675 * 10^-9, i.e. 342675 micrometres per kilometre.
EdgeShortfall == 342675

CeilDiv(a, b) == (a + b - 1) \div b

\* point.Buffer(distance), distance in metres.
Buffer(distance) ==
    [srs |-> ProjectedSRS,
     radius |-> distance,
     apothem |-> distance
                 - CeilDiv((distance \div 1000) * EdgeShortfall, 1000000)]

\* How far the buffer polygon reaches along a bearing (whole metres).
Reach(buf, bearing) ==
    IF bearing = "vertex" THEN buf.radius ELSE buf.apothem

\* geom.Intersects(point_buffer) for a point: the point lies in the closed
\* polygon (its boundary included).
Intersects(geom, buf) ==
    /\ geom.srs = buf.srs
    /\ geom.dist <= Reach(buf, geom.bearing)

(***************************************************************************)
(* Sequences helpers.                                                      *)
(***************************************************************************)
SeqsUpTo(S, n) == UNION {[1..k -> S] : k \in 0..n}

\* Variant of Remove: list.pop(), which drops the last element whatever x is.
RemoveLast(list, x) == SubSeq(list, 1, Len(list) - 1)

\* Variant of Remove: the list is left as it is.
RemoveNothing(list, x) == list

\* list.remove(x): drops the first occurrence of x.
RECURSIVE Remove(_, _)
Remove(list, x) ==
    IF list = <<>> THEN <<>>
    ELSE IF Head(list) = x THEN Tail(list)
    ELSE <<Head(list)>> \o Remove(Tail(list), x)

Elems(list) == {list[i] : i \in 1..Len(list)}

(***************************************************************************)
(* Responses of the API.                                                   *)
(***************************************************************************)
Features == [STATION_NUMBER : StationNumbers, geometry : Geometries]

\* Responses to the hydrometric-stations request: with or without a
\* "features" key.
StationResponses ==
    {[has_features |-> FALSE, features |-> <<>>, crs |-> InputSRS]}
    \cup {[has_features |-> TRUE, features |-> f, crs |-> c] :
            f \in SeqsUpTo(Features, MaxCandidates), c \in LayerSRS}

\* Responses to the hydrometric-daily-mean request of one station: one
\* record per day, in ascending date order; DATE is the day of the period.
DailyMeans ==
    {[i \in 1..Len(l) |-> [DATE |-> i, LEVEL |-> l[i]]] :
        l \in SeqsUpTo(RawLevels, MaxRecords)}

VARIABLES
    pc,                     \* position in the notebook
    station_data,           \* response of the hydrometric-stations request
    transform,              \* <<>> until the coordinate transformation exists
    point_buffer,           \* <<>> until the buffer exists
    layer_pos,              \* next feature of the layer to test
    stations,               \* list of station numbers
    hydrometric_data,       \* station number -> data frame
    stations_without_data,  \* list of station numbers
    station_idx,            \* position of the assembly loop in stations
    historical_data_df,     \* data frame of the station being processed
    remove_idx,             \* position of the removal loop
    hydro_data,             \* station number -> records the API returned
    error,                  \* exception that ended the run, or "none"
    widgets,                \* what the rendering cells have created so far
    fig,                    \* <<>> or the plot shown by the graph widget
    table,                  \* <<>> or the table shown by the table widget
    markers,                \* latest_data of the markers added to the map
    html,                   \* <<>> or the content of the hover box
    params,                 \* parameters of the run: the buffer size in km
    bbox,                   \* <<>> until the bounding box is formatted
    prefiltered             \* <<>> or a station tested against the bbox

\* What the rendering cells write.
render == <<widgets, fig, table, markers, html>>

\* What the parameter and formatting cells and the stations request write.
request == <<params, bbox, prefiltered>>

vars == <<pc, station_data, transform, point_buffer, layer_pos, stations,
          hydrometric_data, stations_without_data, station_idx,
          historical_data_df, remove_idx, hydro_data, error, render, request>>

\* Coordinates of the centre point (Chilliwack) in millionths of a degree.
lat == 49162676
long == -121958943

\* Documented conversions, in millionths of a degree per kilometre:
\* latitude 1 km = 0.009 degree, longitude at the 49th parallel 1 km = 0.014
\* degree.
KmToLatitude == 9000
KmToLongitude == 14000

\* Variant of BBox: the half-width is taken like the half-height.
BBoxSquare(b) ==
    [west |-> long - b * 10000, south |-> lat - b * 10000,
     east |-> long + b * 10000, north |-> lat + b * 10000]

\* bbox = [long - buffer * 0.02, lat - buffer * 0.01, long + buffer * 0.02,
\* lat + buffer * 0.01] in millionths of a degree; the list holds the
\* decimal strings of these numbers, which the API reads back as the same
\* numbers.
BBox(b) ==
    [west |-> long - b * 20000, south |-> lat - b * 10000,
     east |-> long + b * 20000, north |-> lat + b * 10000]

\* Position of a station east_km and north_km kilometres from the centre,
\* at the documented conversions.
Degrees(east_km, north_km) ==
    [LONGITUDE |-> long + east_km * KmToLongitude,
     LATITUDE |-> lat + north_km * KmToLatitude]

\* The bbox filter of the API: the position lies in the box, borders
\* included.
InBBox(pos, box) ==
    /\ box.west <= pos.LONGITUDE /\ pos.LONGITUDE <= box.east
    /\ box.south <= pos.LATITUDE /\ pos.LATITUDE <= box.north

NoFrames == [s \in {} |-> <<>>]

Init ==
    /\ pc = "verify"
    /\ station_data \in StationResponses
    /\ transform = <<>>
    /\ point_buffer = <<>>
    /\ layer_pos = 0
    /\ stations = <<>>
    /\ hydrometric_data = NoFrames
    /\ stations_without_data = <<>>
    /\ station_idx = 0
    /\ historical_data_df = <<>>
    /\ remove_idx = 0
    /\ hydro_data = NoFrames
    /\ error = "none"
    /\ widgets = <<>>
    /\ fig = <<>>
    /\ table = <<>>
    /\ markers = <<>>
    /\ html = <<>>
    /\ params = [buffer |-> buffer]
    /\ bbox = <<BBox(buffer)>>
    /\ prefiltered = <<>>

NoStationsFound == "ValueError: No hydrometric stations were found"
NoneWithinBuffer == "ValueError: There are no hydrometric stations within buffer km"
NoWaterLevelData == "ValueError: No water level data is available"
NumMonthsUndefined == "NameError: name 'num_months' is not defined"
CorruptSRS == "RuntimeError: OGR Error: Corrupt data"
NoneHasNoImport == "AttributeError: 'NoneType' object has no attribute 'ImportFromEPSG'"
IntOfNone == "TypeError: int() argument must be a number, not 'NoneType'"

\* Variant of VerifyStationData: only the presence of the "features" key is
\* tested, not that the list has elements.
VerifyKeyOnly ==
    /\ pc = "verify"
    /\ IF station_data.has_features
       THEN /\ pc' = "buffer"
            /\ error' = error
       ELSE /\ pc' = "failed"
            /\ error' = NoStationsFound
    /\ UNCHANGED render
    /\ UNCHANGED request
    /\ UNCHANGED <<station_data, transform, point_buffer, layer_pos, stations,
                   hydrometric_data, stations_without_data, station_idx,
                   historical_data_df, remove_idx, hydro_data>>

\* Verification of the retrieved station data.
VerifyStationData ==
    /\ pc = "verify"
    /\ IF station_data.has_features /\ station_data.features # <<>>
       THEN /\ pc' = "buffer"
            /\ error' = error
       ELSE /\ pc' = "failed"
            /\ error' = NoStationsFound
    /\ UNCHANGED render
    /\ UNCHANGED request
    /\ UNCHANGED <<station_data, transform, point_buffer, layer_pos, stations,
                   hydrometric_data, stations_without_data, station_idx,
                   historical_data_df, remove_idx, hydro_data>>

\* Exceptions of the identification of the input SRS.  Without a spatial
\* reference layer.GetSpatialRef() is None: osr.SpatialReference("None")
\* raises where the bindings raise on OGR errors, otherwise the call of
\* ImportFromEPSG on None does.  With a reference that has no authority code
\* GetAuthorityCode is None and int(epsg) raises.
SRSFailures(crs) ==
    IF crs = "none" THEN {CorruptSRS, NoneHasNoImport} ELSE {IntOfNone}

\* Variant of CreateBuffer: the station list of an earlier execution of the
\* cell is kept instead of starting from the empty list.
CreateBufferKeepStations ==
    /\ pc = "buffer"
    /\ IF station_data.crs = InputSRS
       THEN /\ transform' = <<[source |-> InputSRS, target |-> ProjectedSRS]>>
            /\ point_buffer' = <<Buffer(buffer * 1000)>>
            /\ stations' = stations
            /\ layer_pos' = 1
            /\ pc' = "select"
            /\ error' = error
       ELSE /\ pc' = "failed"
            /\ error' \in SRSFailures(station_data.crs)
            /\ UNCHANGED <<transform, point_buffer, stations, layer_pos>>
    /\ UNCHANGED render
    /\ UNCHANGED request
    /\ UNCHANGED <<station_data, hydrometric_data, stations_without_data,
                   station_idx, historical_data_df, remove_idx, hydro_data>>

\* Start of the selection cell: spatial reference systems, coordinate
\* transformation, buffer around the centre point, empty station list.
CreateBuffer ==
    /\ pc = "buffer"
    /\ IF station_data.crs = InputSRS
       THEN /\ transform' = <<[source |-> InputSRS, target |-> ProjectedSRS]>>
            /\ point_buffer' = <<Buffer(buffer * 1000)>>
            /\ stations' = <<>>
            /\ layer_pos' = 1
            /\ pc' = "select"
            /\ error' = error
       ELSE /\ pc' = "failed"
            /\ error' \in SRSFailures(station_data.crs)
            /\ UNCHANGED <<transform, point_buffer, stations, layer_pos>>
    /\ UNCHANGED render
    /\ UNCHANGED request
    /\ UNCHANGED <<station_data, hydrometric_data, stations_without_data,
                   station_idx, historical_data_df, remove_idx, hydro_data>>

\* One iteration of "for feature in layer".
SelectFeature ==
    /\ pc = "select"
    /\ layer_pos <= Len(station_data.features)
    /\ LET feature == station_data.features[layer_pos]
           geom == Transform(feature.geometry, transform[1])
       IN  stations' = IF Intersects(geom, point_buffer[1])
                       THEN Append(stations, feature.STATION_NUMBER)
                       ELSE stations
    /\ layer_pos' = layer_pos + 1
    /\ UNCHANGED render
    /\ UNCHANGED request
    /\ UNCHANGED <<pc, station_data, transform, point_buffer,
                   hydrometric_data, stations_without_data, station_idx,
                   historical_data_df, remove_idx, hydro_data, error>>

\* Variant of CheckStations: the error is reported but the run goes on to the
\* assembly cell.
CheckStationsContinue ==
    /\ pc = "select"
    /\ layer_pos > Len(station_data.features)
    /\ pc' = "assemble"
    /\ error' = IF stations = <<>> THEN NoneWithinBuffer ELSE error
    /\ UNCHANGED render
    /\ UNCHANGED request
    /\ UNCHANGED <<station_data, transform, point_buffer, layer_pos, stations,
                   hydrometric_data, stations_without_data, station_idx,
                   historical_data_df, remove_idx, hydro_data>>

\* End of the selection cell: "if not stations: raise ValueError".
CheckStations ==
    /\ pc = "select"
    /\ layer_pos > Len(station_data.features)
    /\ IF stations = <<>>
       THEN /\ pc' = "failed"
            /\ error' = NoneWithinBuffer
       ELSE /\ pc' = "assemble"
            /\ error' = error
    /\ UNCHANGED render
    /\ UNCHANGED request
    /\ UNCHANGED <<station_data, transform, point_buffer, layer_pos, stations,
                   hydrometric_data, stations_without_data, station_idx,
                   historical_data_df, remove_idx, hydro_data>>

(***************************************************************************)
(* Assembly of the data frames.                                            *)
(***************************************************************************)
\* Variant of DataFrame: no fillna, absent values stay as they came.
DataFrameNoFillna(records) ==
    [i \in 1..Len(records) |->
        [DATE |-> records[i].DATE, LEVEL |-> records[i].LEVEL]]

\* pd.DataFrame(...).fillna(value=np.nan): absent values become NaN.
DataFrame(records) ==
    [i \in 1..Len(records) |->
        [DATE |-> records[i].DATE,
         LEVEL |-> IF records[i].LEVEL = "null" THEN "NaN"
                   ELSE records[i].LEVEL]]

\* Variant of isnan: a test for the absent value instead of NaN.
IsNone(level) == level = "null"

\* np.isnan / isnull of one LEVEL value.
isnan(level) == level = "NaN"

\* Variant of AllNull: isnull().any(), true as soon as one value is missing.
AnyNull(df) == \E i \in 1..Len(df) : isnan(df[i].LEVEL)

\* df["LEVEL"].isnull().all()
AllNull(df) == \A i \in 1..Len(df) : isnan(df[i].LEVEL)

\* Variant of DropTail: df.dropna(), which drops every row without LEVEL.
DropMissing(df) == SelectSeq(df, LAMBDA row : row.LEVEL # "NaN")

\* Variant of DropTail: the result of drop is not the frame without its last
\* row but the frame itself.
DropNothing(df) == df

\* df.drop(df.tail(1).index): the frame without its last row.
DropTail(df) == SubSeq(df, 1, Len(df) - 1)

\* pd.to_datetime(DATE) ... .date: day n of the period as a calendar date
\* (the period starts on 2018-06-01; the model stays within June).
ToDate(day) == [year |-> 2018, month |-> 6, day |-> day]

\* set_index(["DATE"], drop=True): the date becomes the index of the row and
\* the DATE column is dropped.
SetDateIndex(df) ==
    [i \in 1..Len(df) |-> [index |-> ToDate(df[i].DATE), LEVEL |-> df[i].LEVEL]]

\* Variant of TrimLoop: "if" instead of "while", at most one row is dropped.
TrimOnce(df) ==
    IF isnan(df[Len(df)].LEVEL) THEN DropTail(df) ELSE df

\* The whole loop "while np.isnan(df["LEVEL"].iloc[-1]): df = df.drop(...)".
RECURSIVE TrimLoop(_)
TrimLoop(df) ==
    IF isnan(df[Len(df)].LEVEL) THEN TrimLoop(DropTail(df)) ELSE df

\* Start of the assembly cell.
BeginAssembly ==
    /\ pc = "assemble"
    /\ hydrometric_data' = NoFrames
    /\ stations_without_data' = <<>>
    /\ station_idx' = 1
    /\ pc' = "fetch"
    /\ UNCHANGED render
    /\ UNCHANGED request
    /\ UNCHANGED <<station_data, transform, point_buffer, layer_pos, stations,
                   historical_data_df, remove_idx, hydro_data, error>>

\* Variant of FetchStation: a station without data is removed from stations
\* inside the loop that iterates over it.
FetchStationRemoveInLoop ==
    /\ pc = "fetch"
    /\ station_idx <= Len(stations)
    /\ LET station == stations[station_idx] IN
       \E features \in DailyMeans :
          /\ station \in DOMAIN hydro_data => features = hydro_data[station]
          /\ hydro_data' =
                [s \in DOMAIN hydro_data \cup {station} |->
                    IF s = station THEN features ELSE hydro_data[s]]
          /\ IF features # <<>> /\ ~AllNull(DataFrame(features))
             THEN /\ historical_data_df' = DataFrame(features)
                  /\ pc' = "trim"
                  /\ UNCHANGED <<stations, stations_without_data, station_idx>>
             ELSE /\ historical_data_df' =
                        IF features # <<>> THEN DataFrame(features)
                        ELSE historical_data_df
                  /\ stations_without_data' =
                        Append(stations_without_data, station)
                  /\ stations' = Remove(stations, station)
                  /\ station_idx' = station_idx + 1
                  /\ pc' = pc
    /\ UNCHANGED render
    /\ UNCHANGED request
    /\ UNCHANGED <<station_data, transform, point_buffer, layer_pos,
                   hydrometric_data, remove_idx, error>>

\* One iteration of "for station in stations" up to the trim loop: request
\* of the station's records, creation of the data frame, test for data.
\* The same request returns the same records.
FetchStation ==
    /\ pc = "fetch"
    /\ station_idx <= Len(stations)
    /\ LET station == stations[station_idx] IN
       \E features \in DailyMeans :
          /\ station \in DOMAIN hydro_data => features = hydro_data[station]
          /\ hydro_data' =
                [s \in DOMAIN hydro_data \cup {station} |->
                    IF s = station THEN features ELSE hydro_data[s]]
          /\ IF features # <<>> /\ ~AllNull(DataFrame(features))
             THEN /\ historical_data_df' = DataFrame(features)
                  /\ pc' = "trim"
                  /\ UNCHANGED <<stations_without_data, station_idx>>
             ELSE /\ historical_data_df' =
                        IF features # <<>> THEN DataFrame(features)
                        ELSE historical_data_df
                  /\ stations_without_data' =
                        Append(stations_without_data, station)
                  /\ station_idx' = station_idx + 1
                  /\ pc' = pc
    /\ UNCHANGED render
    /\ UNCHANGED request
    /\ UNCHANGED <<station_data, transform, point_buffer, layer_pos, stations,
                   hydrometric_data, remove_idx, error>>

\* One iteration of "while np.isnan(df["LEVEL"].iloc[-1])".
TrimTail ==
    /\ pc = "trim"
    /\ isnan(historical_data_df[Len(historical_data_df)].LEVEL)
    /\ historical_data_df' = DropTail(historical_data_df)
    /\ UNCHANGED render
    /\ UNCHANGED request
    /\ UNCHANGED <<pc, station_data, transform, point_buffer, layer_pos,
                   stations, hydrometric_data, stations_without_data,
                   station_idx, remove_idx, hydro_data, error>>

\* Variant of StoreFrame: the "else" of the all-NaN test bound to the while
\* loop, so that the station is also appended to stations_without_data.
StoreFrameWhileElse ==
    /\ pc = "trim"
    /\ ~(historical_data_df[Len(historical_data_df)].LEVEL = "NaN")
    /\ LET station == stations[station_idx] IN
       /\ hydrometric_data' =
             [s \in DOMAIN hydrometric_data \cup {station} |->
                 IF s = station
                 THEN [i \in 1..Len(historical_data_df) |->
                         [index |-> [year |-> 2018, month |-> 6,
                                     day |-> historical_data_df[i].DATE],
                          LEVEL |-> historical_data_df[i].LEVEL]]
                 ELSE hydrometric_data[s]]
       /\ stations_without_data' = Append(stations_without_data, station)
    /\ station_idx' = station_idx + 1
    /\ pc' = "fetch"
    /\ UNCHANGED render
    /\ UNCHANGED request
    /\ UNCHANGED <<station_data, transform, point_buffer, layer_pos, stations,
                   historical_data_df, remove_idx, hydro_data, error>>

\* Variant of StoreFrame: the frame is stored under the first station of the
\* list instead of the station of the iteration.
StoreFrameFirstKey ==
    /\ pc = "trim"
    /\ ~isnan(historical_data_df[Len(historical_data_df)].LEVEL)
    /\ LET station == stations[1] IN
       hydrometric_data' =
          [s \in DOMAIN hydrometric_data \cup {station} |->
              IF s = station THEN SetDateIndex(historical_data_df)
              ELSE hydrometric_data[s]]
    /\ station_idx' = station_idx + 1
    /\ pc' = "fetch"
    /\ UNCHANGED render
    /\ UNCHANGED request
    /\ UNCHANGED <<station_data, transform, point_buffer, layer_pos, stations,
                   stations_without_data, historical_data_df, remove_idx,
                   hydro_data, error>>

\* Exit of the trim loop: date index, then hydrometric_data[station] = df.
StoreFrame ==
    /\ pc = "trim"
    /\ ~isnan(historical_data_df[Len(historical_data_df)].LEVEL)
    /\ LET station == stations[station_idx] IN
       hydrometric_data' =
          [s \in DOMAIN hydrometric_data \cup {station} |->
              IF s = station THEN SetDateIndex(historical_data_df)
              ELSE hydrometric_data[s]]
    /\ station_idx' = station_idx + 1
    /\ pc' = "fetch"
    /\ UNCHANGED render
    /\ UNCHANGED request
    /\ UNCHANGED <<station_data, transform, point_buffer, layer_pos, stations,
                   stations_without_data, historical_data_df, remove_idx,
                   hydro_data, error>>

\* End of "for station in stations".
EndAssemblyLoop ==
    /\ pc = "fetch"
    /\ station_idx > Len(stations)
    /\ remove_idx' = 1
    /\ pc' = "remove"
    /\ UNCHANGED render
    /\ UNCHANGED request
    /\ UNCHANGED <<station_data, transform, point_buffer, layer_pos, stations,
                   hydrometric_data, stations_without_data, station_idx,
                   historical_data_df, hydro_data, error>>

\* One iteration of "for station in stations_without_data:
\* stations.remove(station)".
RemoveStation ==
    /\ pc = "remove"
    /\ remove_idx <= Len(stations_without_data)
    /\ stations' = Remove(stations, stations_without_data[remove_idx])
    /\ remove_idx' = remove_idx + 1
    /\ UNCHANGED render
    /\ UNCHANGED request
    /\ UNCHANGED <<pc, station_data, transform, point_buffer, layer_pos,
                   hydrometric_data, stations_without_data, station_idx,
                   historical_data_df, hydro_data, error>>

\* The exception raised by "raise ValueError(f"... {num_months} ...")":
\* the message is built before the ValueError, and no cell of the notebook
\* assigns num_months.
NoDataFailure == NumMonthsUndefined

\* Variant of CheckData: the empty list is not tested, the notebook goes on
\* to its rendering cells.
CheckDataNoRaise ==
    /\ pc = "remove"
    /\ remove_idx > Len(stations_without_data)
    /\ pc' = "render"
    /\ error' = error
    /\ UNCHANGED render
    /\ UNCHANGED request
    /\ UNCHANGED <<station_data, transform, point_buffer, layer_pos, stations,
                   hydrometric_data, stations_without_data, station_idx,
                   historical_data_df, remove_idx, hydro_data>>

\* End of the assembly cell: "if not stations: raise ...".
CheckData ==
    /\ pc = "remove"
    /\ remove_idx > Len(stations_without_data)
    /\ IF stations = <<>>
       THEN /\ pc' = "failed"
            /\ error' = NoDataFailure
       ELSE /\ pc' = "render"
            /\ error' = error
    /\ UNCHANGED render
    /\ UNCHANGED request
    /\ UNCHANGED <<station_data, transform, point_buffer, layer_pos, stations,
                   hydrometric_data, stations_without_data, station_idx,
                   historical_data_df, remove_idx, hydro_data>>

(***************************************************************************)
(* Rendering: plot, table and map.  The cells run once, in order (Run      *)
(* All); the kernel serves the messages of the widgets after the queued    *)
(* cells, so the callbacks run once the last cell has displayed the map.   *)
(***************************************************************************)
core == <<pc, station_data, transform, point_buffer, layer_pos, stations,
          hydrometric_data, stations_without_data, station_idx,
          historical_data_df, remove_idx, hydro_data, error>>

\* choose_station(station): the plot of the LEVEL column of the station.
Plot(station) ==
    LET df == hydrometric_data[station] IN
    [title |-> station,
     x |-> [i \in 1..Len(df) |-> df[i].index],
     y |-> [i \in 1..Len(df) |-> df[i].LEVEL]]

\* choose_station_table(station): a renamed copy of the LEVEL column.
DisplayedTable(station) ==
    LET df == hydrometric_data[station] IN
    [title |-> station,
     rows |-> [i \in 1..Len(df) |->
                 [Date |-> df[i].index, WaterLevel |-> df[i].LEVEL]]]

\* Variant of LatestData: iloc[0], the first row of the series.
FirstData(station) ==
    LET df == hydrometric_data[station] IN
    [STATION_NUMBER |-> station,
     name |-> df[1].index,
     LEVEL |-> df[1].LEVEL]

\* hydrometric_data[station].iloc[-1]
LatestData(station) ==
    LET df == hydrometric_data[station] IN
    [STATION_NUMBER |-> station,
     name |-> df[Len(df)].index,
     LEVEL |-> df[Len(df)].LEVEL]

HoverHint == [text |-> "Hover over Hydrometric Stations"]

\* graph = interact(choose_station, station=stations): the dropdown is
\* created and choose_station runs for its first option.
CreateGraph ==
    /\ pc = "render"
    /\ widgets = <<>>
    /\ fig' = <<Plot(stations[1])>>
    /\ widgets' = <<"graph">>
    /\ UNCHANGED <<table, markers, html>>
    /\ UNCHANGED core
    /\ UNCHANGED request

\* The user picks a station in the dropdown of the plot.
ChooseStation ==
    /\ pc = "render"
    /\ widgets = <<"graph", "table", "html", "map">>
    /\ \E station \in Elems(stations) : fig' = <<Plot(station)>>
    /\ UNCHANGED <<widgets, table, markers, html>>
    /\ UNCHANGED core
    /\ UNCHANGED request

\* table = interact(choose_station_table, station=stations)
CreateTable ==
    /\ pc = "render"
    /\ widgets = <<"graph">>
    /\ table' = <<DisplayedTable(stations[1])>>
    /\ widgets' = Append(widgets, "table")
    /\ UNCHANGED <<fig, markers, html>>
    /\ UNCHANGED core
    /\ UNCHANGED request

\* Variant of ChooseStationTable: the frame is taken out of hydrometric_data
\* (pop) instead of being read.
ChooseStationTablePop ==
    /\ pc = "render"
    /\ widgets = <<"graph", "table", "html", "map">>
    /\ \E station \in Elems(stations) :
          /\ table' = <<DisplayedTable(station)>>
          /\ hydrometric_data' =
                [s \in DOMAIN hydrometric_data \ {station} |->
                    hydrometric_data[s]]
    /\ UNCHANGED <<widgets, fig, markers, html>>
    /\ UNCHANGED request
    /\ UNCHANGED <<pc, station_data, transform, point_buffer, layer_pos,
                   stations, stations_without_data, station_idx,
                   historical_data_df, remove_idx, hydro_data, error>>

\* The user picks a station in the dropdown of the table.
ChooseStationTable ==
    /\ pc = "render"
    /\ widgets = <<"graph", "table", "html", "map">>
    /\ \E station \in Elems(stations) :
          table' = <<DisplayedTable(station)>>
    /\ UNCHANGED <<widgets, fig, markers, html>>
    /\ UNCHANGED core
    /\ UNCHANGED request

\* Start of the map cell: centre, map, title, hover box.
CreateMap ==
    /\ pc = "render"
    /\ widgets = <<"graph", "table">>
    /\ html' = <<HoverHint>>
    /\ widgets' = Append(widgets, "html")
    /\ UNCHANGED <<fig, table, markers>>
    /\ UNCHANGED core
    /\ UNCHANGED request

\* One iteration of "for station in stations" of the map cell.
AddMarker ==
    /\ pc = "render"
    /\ widgets = <<"graph", "table", "html">>
    /\ Len(markers) < Len(stations)
    /\ markers' = Append(markers, LatestData(stations[Len(markers) + 1]))
    /\ UNCHANGED <<widgets, fig, table, html>>
    /\ UNCHANGED core
    /\ UNCHANGED request

\* display(m)
DisplayMap ==
    /\ pc = "render"
    /\ widgets = <<"graph", "table", "html">>
    /\ Len(markers) = Len(stations)
    /\ widgets' = Append(widgets, "map")
    /\ UNCHANGED <<fig, table, markers, html>>
    /\ UNCHANGED core
    /\ UNCHANGED request

\* The callback of a marker: the hover box shows its latest_data.
MouseOver ==
    /\ pc = "render"
    /\ widgets = <<"graph", "table", "html", "map">>
    /\ \E i \in 1..Len(markers) : html' = <<markers[i]>>
    /\ UNCHANGED <<widgets, fig, table, markers>>
    /\ UNCHANGED core
    /\ UNCHANGED request

Next ==
    \/ VerifyStationData
    \/ CreateBuffer
    \/ SelectFeature
    \/ CheckStations
    \/ BeginAssembly
    \/ FetchStation
    \/ TrimTail
    \/ StoreFrame
    \/ EndAssemblyLoop
    \/ RemoveStation
    \/ CheckData

\* Fetch, selection and assembly: the run up to the rendering cells.
Spec == Init /\ [][Next]_vars

\* The whole notebook, rendering included.  What the rendering shows does
\* not depend on where the stations left out by the selection lie, so the
\* stations of these runs are either well inside or well outside the buffer.
\* The selection cell executed again, with the same station_data, centre,
\* radius and projection, once an execution of it (or of the whole
\* notebook) has completed without error.
RerunSelection ==
    /\ pc \in {"assemble", "render"}
    /\ pc' = "buffer"
    /\ UNCHANGED render
    /\ UNCHANGED request
    /\ UNCHANGED <<station_data, transform, point_buffer, layer_pos, stations,
                   hydrometric_data, stations_without_data, station_idx,
                   historical_data_df, remove_idx, hydro_data, error>>

RerunNext == Next \/ RerunSelection

RerunSpec == Init /\ [][RerunNext]_vars

\* The interpreter executes the next statement of a running cell and the
\* cells run in order: a step that can be taken is taken.
FairSpec == Spec /\ WF_vars(Next)

(***************************************************************************)
(* The bounding box of the stations request, for several buffer sizes.     *)
(***************************************************************************)
\* Buffer sizes in kilometres.
Buffers == (1..MaxBuffer) \cup {buffer}

\* Whole-kilometre offsets of a station from the centre, up to twice the
\* buffer size in each direction.
Offsets(b) == (0 - 2 * b)..(2 * b)

\* The parameters cell has run with some buffer size; nothing else has.
BBoxInit ==
    /\ pc = "format"
    /\ params \in [buffer : Buffers]
    /\ bbox = <<>>
    /\ prefiltered = <<>>
    /\ station_data = <<>>
    /\ transform = <<>>
    /\ point_buffer = <<>>
    /\ layer_pos = 0
    /\ stations = <<>>
    /\ hydrometric_data = NoFrames
    /\ stations_without_data = <<>>
    /\ station_idx = 0
    /\ historical_data_df = <<>>
    /\ remove_idx = 0
    /\ hydro_data = NoFrames
    /\ error = "none"
    /\ widgets = <<>>
    /\ fig = <<>>
    /\ table = <<>>
    /\ markers = <<>>
    /\ html = <<>>

\* The formatting cell: bbox = [...].
FormatBBox ==
    /\ pc = "format"
    /\ bbox' = <<BBox(params.buffer)>>
    /\ pc' = "request"
    /\ UNCHANGED <<params, prefiltered>>
    /\ UNCHANGED render
    /\ UNCHANGED <<station_data, transform, point_buffer, layer_pos, stations,
                   hydrometric_data, stations_without_data, station_idx,
                   historical_data_df, remove_idx, hydro_data, error>>

\* collection_items("hydrometric-stations", bbox=bbox, ...): the API tests
\* a station against the bounding box and keeps it if it lies inside (one
\* station is followed per run).
PrefilterStation ==
    /\ pc = "request"
    /\ prefiltered = <<>>
    /\ \E east_km, north_km \in Offsets(params.buffer) :
          prefiltered' =
             <<[east_km |-> east_km, north_km |-> north_km,
                kept |-> InBBox(Degrees(east_km, north_km), bbox[1])]>>
    /\ UNCHANGED <<params, bbox>>
    /\ UNCHANGED render
    /\ UNCHANGED <<pc, station_data, transform, point_buffer, layer_pos,
                   stations, hydrometric_data, stations_without_data,
                   station_idx, historical_data_df, remove_idx, hydro_data,
                   error>>

BBoxNext == FormatBBox \/ PrefilterStation

BBoxSpec == BBoxInit /\ [][BBoxNext]_vars

RenderPositions == {<<10000, "edge">>, <<150000, "edge">>}

RenderInit ==
    /\ Init
    /\ \A i \in 1..Len(station_data.features) :
          LET g == station_data.features[i].geometry
          IN  <<g.dist, g.bearing>> \in RenderPositions

RenderNext ==
    \/ Next
    \/ CreateGraph
    \/ ChooseStation
    \/ CreateTable
    \/ ChooseStationTable
    \/ CreateMap
    \/ AddMarker
    \/ DisplayMap
    \/ MouseOver

RenderSpec == RenderInit /\ [][RenderNext]_vars

TypeOK ==
    /\ pc \in {"verify", "buffer", "select", "assemble", "fetch", "trim",
               "remove", "render", "failed"}
    /\ station_data \in StationResponses
    /\ Len(stations) <= MaxCandidates
    /\ DOMAIN hydrometric_data \subseteq StationNumbers
    /\ Len(historical_data_df) <= MaxRecords
    /\ error \in {"none", NoStationsFound, NoneWithinBuffer, NoWaterLevelData,
                  NumMonthsUndefined, CorruptSRS, NoneHasNoImport, IntOfNone}

(***************************************************************************)
(* Vocabulary of the properties.                                           *)
(***************************************************************************)
Candidates == station_data.features

\* The selection loop has tested every feature and the assembly stage has
\* not yet removed anything from the list.
SelectionComplete ==
    \/ pc = "select" /\ layer_pos > Len(Candidates)
    \/ pc \in {"assemble", "fetch", "trim"}
    \/ pc = "failed" /\ error = NoneWithinBuffer

\* Station numbers of the candidates at most r metres from the centre.
WithinRadius(r) ==
    {Candidates[i].STATION_NUMBER :
        i \in {j \in 1..Len(Candidates) : Candidates[j].geometry.dist <= r}}

\* Station numbers all of whose candidates are exactly r metres away.
OnCircle(r) ==
    {id \in StationNumbers :
        /\ \E i \in 1..Len(Candidates) : Candidates[i].STATION_NUMBER = id
        /\ \A i \in 1..Len(Candidates) :
              Candidates[i].STATION_NUMBER = id
                 => Candidates[i].geometry.dist = r}

\* C1: once the selection loop has finished, the station list holds a
\* station number if and only if one of its candidates is at most buffer
\* kilometres (projected distance) from the centre.
C1_SelectedIffWithinRadius ==
    SelectionComplete => Elems(stations) = WithinRadius(buffer * 1000)

\* C2: a candidate whose projected distance from the centre equals the
\* radius exactly is not selected.
C2_BoundaryNotSelected ==
    SelectionComplete => Elems(stations) \cap OnCircle(buffer * 1000) = {}

\* Indices of the records of recs with a LEVEL value.
PresentAt(recs) == {i \in 1..Len(recs) : recs[i].LEVEL \in PresentLevels}
HasPresent(recs) == PresentAt(recs) # {}
LastPresent(recs) == CHOOSE i \in PresentAt(recs) : \A j \in PresentAt(recs) : j <= i

\* Row of a stored frame that stands for a record of the response.
RowOf(rec) ==
    [index |-> [year |-> 2018, month |-> 6, day |-> rec.DATE],
     LEVEL |-> IF rec.LEVEL \in PresentLevels THEN rec.LEVEL ELSE "NaN"]

\* The station is between its request and the storing of its frame.
InTrim(s) == pc = "trim" /\ stations[station_idx] = s

\* C3: the series stored for a station is the prefix of its records that
\* ends at the last record with a present value, and every station with a
\* present value gets such a series once its iteration is over.
C3_StoredIsPrefixToLastPresent ==
    /\ \A s \in DOMAIN hydrometric_data :
          /\ HasPresent(hydro_data[s])
          /\ Len(hydrometric_data[s]) = LastPresent(hydro_data[s])
          /\ \A i \in 1..Len(hydrometric_data[s]) :
                hydrometric_data[s][i] = RowOf(hydro_data[s][i])
    /\ \A s \in DOMAIN hydro_data :
          HasPresent(hydro_data[s]) /\ ~InTrim(s)
             => s \in DOMAIN hydrometric_data

\* Scenario C: three records, the last two missing, stored as one row.
C3_Witness ==
    \E s \in DOMAIN hydrometric_data :
        /\ Len(hydro_data[s]) = 3
        /\ PresentAt(hydro_data[s]) = {1}
        /\ hydrometric_data[s] = <<RowOf(hydro_data[s][1])>>

\* C4: the trim keeps every retained record unchanged at its position:
\* during and after the trim the frame is a prefix of the records, missing
\* values before the last present one included, and it still holds every
\* present value.
C4_TrimKeepsRetainedRecords ==
    /\ \A s \in DOMAIN hydrometric_data :
          /\ Len(hydrometric_data[s]) <= Len(hydro_data[s])
          /\ \A i \in 1..Len(hydrometric_data[s]) :
                /\ hydrometric_data[s][i].index.day = hydro_data[s][i].DATE
                /\ hydro_data[s][i].LEVEL = "null"
                      <=> hydrometric_data[s][i].LEVEL = "NaN"
                /\ hydro_data[s][i].LEVEL # "null"
                      => hydrometric_data[s][i].LEVEL = hydro_data[s][i].LEVEL
          /\ PresentAt(hydro_data[s]) \subseteq 1..Len(hydrometric_data[s])
    /\ pc = "trim" =>
          LET recs == hydro_data[stations[station_idx]] IN
          /\ Len(historical_data_df) <= Len(recs)
          /\ \A i \in 1..Len(historical_data_df) :
                /\ historical_data_df[i].DATE = recs[i].DATE
                /\ recs[i].LEVEL = "null"
                      <=> historical_data_df[i].LEVEL = "NaN"
                /\ recs[i].LEVEL # "null"
                      => historical_data_df[i].LEVEL = recs[i].LEVEL
          /\ PresentAt(recs) \subseteq 1..Len(historical_data_df)

\* A stored series whose trailing record was trimmed and that keeps the
\* missing value before its first observation.
C4_Witness ==
    \E s \in DOMAIN hydrometric_data :
        /\ Len(hydro_data[s]) = 3
        /\ Len(hydrometric_data[s]) = 2
        /\ hydrometric_data[s][1].LEVEL = "NaN"
        /\ hydrometric_data[s][2].LEVEL # "NaN"

\* The removal loop has finished.
RemovalDone ==
    /\ pc \in {"remove", "render", "failed"}
    /\ remove_idx > Len(stations_without_data)

\* C5: a station whose records are all missing, or that has no record, is
\* in stations_without_data, has no entry in hydrometric_data and is not in
\* the final station list; a station with a present value is never in
\* stations_without_data.
C5_StationsWithoutDataExcluded ==
    \A s \in DOMAIN hydro_data :
        IF HasPresent(hydro_data[s])
        THEN s \notin Elems(stations_without_data)
        ELSE /\ s \in Elems(stations_without_data)
             /\ s \notin DOMAIN hydrometric_data
             /\ RemovalDone => s \notin Elems(stations)

\* Scenario D with a second station: after the removal one station with
\* only missing values is gone and one with data remains.
C5_Witness ==
    /\ pc = "render"
    /\ \E s \in DOMAIN hydro_data :
          /\ hydro_data[s] # <<>>
          /\ ~HasPresent(hydro_data[s])
          /\ s \in Elems(stations_without_data)
    /\ stations # <<>>

\* C6: no station number is both a key of hydrometric_data and an element
\* of stations_without_data.
C6_ExclusionTotality ==
    DOMAIN hydrometric_data \cap Elems(stations_without_data) = {}

\* Both collections are non-empty.
C6_Witness ==
    /\ DOMAIN hydrometric_data # {}
    /\ stations_without_data # <<>>

\* C7: every series stored in hydrometric_data is non-empty, holds a
\* present value, and ends with a present value.
C7_StoredSeriesUsable ==
    \A s \in DOMAIN hydrometric_data :
        LET df == hydrometric_data[s] IN
        /\ df # <<>>
        /\ \E i \in 1..Len(df) : df[i].LEVEL \in PresentLevels
        /\ df[Len(df)].LEVEL \in PresentLevels

\* A stored series whose records ended with missing values.
C7_Witness ==
    \E s \in DOMAIN hydrometric_data :
        /\ hydro_data[s][Len(hydro_data[s])].LEVEL = "null"
        /\ hydrometric_data[s][1].LEVEL = "NaN"

\* The station response has no candidates.
NoCandidates == ~station_data.has_features \/ Candidates = <<>>

\* C8: without candidates the run fails with the "no hydrometric stations
\* were found" error, and no transformation, buffer or selection exists in
\* that run; with candidates that error is never raised.
C8_NoCandidatesFailsFirst ==
    /\ NoCandidates /\ pc # "verify" =>
          /\ pc = "failed"
          /\ error = NoStationsFound
          /\ transform = <<>>
          /\ point_buffer = <<>>
          /\ layer_pos = 0
          /\ stations = <<>>
    /\ error = NoStationsFound => NoCandidates /\ pc = "failed"

\* Scenario B: a "features" key with an empty list.
C8_Witness ==
    /\ station_data.has_features
    /\ Candidates = <<>>
    /\ error = NoStationsFound

\* C9: when the circular test selects none of the candidates the run fails
\* with the "no hydrometric stations within buffer km" error, and that
\* error is never raised when a candidate is within the radius (here: at
\* least one metre closer to the centre than the radius).
C9_NoneWithinRadiusError ==
    /\ SelectionComplete /\ pc # "select" /\ stations = <<>> =>
          pc = "failed" /\ error = NoneWithinBuffer
    /\ error = NoneWithinBuffer => WithinRadius(buffer * 1000 - 1) = {}

\* C10: when every selected station is excluded the run fails with the
\* "No water level data is available" ValueError and with nothing else.
C10_AllExcludedRaisesNoData ==
    RemovalDone /\ pc # "remove" /\ hydrometric_data = NoFrames =>
        pc = "failed" /\ error = NoWaterLevelData

\* The stage at which a failed run raised.
FailedAtVerification == pc = "failed" /\ NoCandidates
FailedAtSelection == pc = "failed" /\ transform # <<>> /\ station_idx = 0
FailedAtAssembly == pc = "failed" /\ station_idx > 0

\* C11: each of the three error conditions (no candidates, no station within
\* the radius, no station with usable data) ends the run with its own
\* message, different from the other two, and with no other error.
C11_DistinctDescriptiveErrors ==
    /\ Cardinality({NoStationsFound, NoneWithinBuffer, NoWaterLevelData}) = 3
    /\ FailedAtVerification => error = NoStationsFound
    /\ FailedAtSelection => error = NoneWithinBuffer
    /\ FailedAtAssembly => error = NoWaterLevelData

\* C12: a failure is terminal.  No step is ever taken from a state in which
\* an exception has been raised (no later stage, no retry); when a step
\* raises, nothing has been rendered, and if the assembly had not begun no
\* observation has been fetched.
C12_FailureIsTerminal ==
    [][/\ error = "none"
       /\ error' # "none" =>
             /\ widgets' = <<>> /\ fig' = <<>> /\ table' = <<>>
             /\ markers' = <<>> /\ html' = <<>>
             /\ station_idx' = 0 =>
                   hydro_data' = NoFrames /\ hydrometric_data' = NoFrames]_vars

C12_Witness ==
    /\ FailedAtSelection
    /\ error = NoneWithinBuffer
    /\ hydro_data = NoFrames
    /\ widgets = <<>>

\* C13: the trailing trim is idempotent.  For every record sequence with a
\* present value, the trim of the trimmed frame is the trimmed frame; the
\* frame the assembly stores is that trimmed frame.
C13_TrimIdempotent ==
    \A s \in DOMAIN hydro_data :
        HasPresent(hydro_data[s]) =>
            LET once == TrimLoop(DataFrame(hydro_data[s]))
            IN  /\ TrimLoop(once) = once
                /\ Len(TrimLoop(once)) = Len(once)
                /\ s \in DOMAIN hydrometric_data =>
                       hydrometric_data[s] = SetDateIndex(once)

C13_Witness ==
    \E s \in DOMAIN hydrometric_data :
        /\ Len(hydro_data[s]) = 3
        /\ Len(hydrometric_data[s]) = 1
        /\ TrimLoop(DataFrame(hydro_data[s])) # DataFrame(hydro_data[s])

\* Station numbers of the candidates whose projected point lies in the
\* buffer polygon of the configured radius, in candidate order.
RECURSIVE InBuffer(_)
InBuffer(features) ==
    IF features = <<>> THEN <<>>
    ELSE LET f == Head(features)
             limit == IF f.geometry.bearing = "vertex"
                      THEN Buffer(buffer * 1000).radius
                      ELSE Buffer(buffer * 1000).apothem
         IN  (IF f.geometry.dist <= limit THEN <<f.STATION_NUMBER>> ELSE <<>>)
             \o InBuffer(Tail(features))

\* C14: every execution of the selection, the first and each later one,
\* ends with the same station list, the one determined by the candidates,
\* the centre, the radius and the projection; no step changes the
\* candidates, and no step of the selection loop changes the transformation
\* or the buffer.
C14_RerunSelectionIdentical ==
    [][/\ station_data' = station_data
       /\ pc = "select" => /\ transform' = transform
                           /\ point_buffer' = point_buffer
       /\ pc = "select" /\ pc' # "select" =>
             stations' = InBuffer(Candidates)]_vars

\* A second execution of the selection has ended: frames of a completed
\* assembly exist while the selection has just finished again.
C14_Witness ==
    /\ pc = "assemble"
    /\ hydrometric_data # NoFrames
    /\ Len(stations) = 2
    /\ stations_without_data = <<>>

\* The loop over the stations has ended.
AssemblyDone ==
    /\ station_idx > 0
    /\ \/ pc \in {"remove", "render", "failed"}
       \/ pc = "fetch" /\ station_idx > Len(stations)

\* The series that a station's own records determine.
SeriesOf(recs) == [i \in 1..LastPresent(recs) |-> RowOf(recs[i])]

\* C15: the outcome of the assembly is a function of the records of each
\* station alone: hydrometric_data maps exactly the stations with a present
\* value to the series of their own records, the excluded stations are
\* exactly the others, whatever the order in which the stations were
\* processed.
C15_OutcomeIndependentOfOrder ==
    AssemblyDone =>
        LET processed == DOMAIN hydro_data
            kept == {s \in processed : HasPresent(hydro_data[s])}
        IN  /\ hydrometric_data = [s \in kept |-> SeriesOf(hydro_data[s])]
            /\ Elems(stations_without_data) = processed \ kept

\* Two stations processed in the order opposite to that of their numbers,
\* the first excluded and the second kept with a trimmed series.
C15_Witness ==
    /\ AssemblyDone
    /\ Len(Candidates) = 2
    /\ Candidates[1].STATION_NUMBER = "08MH001"
    /\ Candidates[2].STATION_NUMBER = "08GA010"
    /\ stations_without_data = <<"08MH001">>
    /\ DOMAIN hydrometric_data = {"08GA010"}
    /\ Len(hydrometric_data["08GA010"]) < Len(hydro_data["08GA010"])

\* The layer has candidates but no usable spatial reference system.
NoUsableSRS == ~NoCandidates /\ station_data.crs # InputSRS

\* C16: when the station layer has no usable spatial reference the run
\* fails with the same "no hydrometric stations were found" error as for an
\* empty candidate list, and no buffer test is made with an undefined
\* transformation.
C16_NoUsableSRSFailsAsNoCandidates ==
    NoUsableSRS /\ pc \notin {"verify", "buffer"} =>
        /\ pc = "failed"
        /\ error = NoStationsFound
        /\ transform = <<>>
        /\ layer_pos = 0
        /\ stations = <<>>

\* C17: once the assembly has completed, no step changes the final station
\* list or hydrometric_data, whatever rendering operations follow.
C17_RenderingLeavesDataUnchanged ==
    [][pc = "render" =>
          /\ stations' = stations
          /\ hydrometric_data' = hydrometric_data]_vars

\* Every rendering operation has acted: the plot and the table show a
\* station other than the first and the hover box shows a marker, while
\* the data are those of the end of the assembly.
C17_Witness ==
    /\ widgets = <<"graph", "table", "html", "map">>
    /\ Len(stations) = 2
    /\ fig[1].title = stations[2]
    /\ table[1].title = stations[2]
    /\ html[1] = markers[2]
    /\ DOMAIN hydrometric_data = Elems(stations)

\* C18: the record of each marker of the map belongs to the station of its
\* position in the final list, has a present LEVEL, and its date is the
\* greatest date among the station's records with a present value; the
\* displayed map has one marker per station.
C18_LatestDataIsLastPresent ==
    /\ \A i \in 1..Len(markers) :
          LET station == stations[i]
              recs == hydro_data[station]
              present == {j \in 1..Len(recs) : recs[j].LEVEL \in PresentLevels}
          IN  /\ markers[i].STATION_NUMBER = station
              /\ markers[i].LEVEL \in PresentLevels
              /\ \E j \in present :
                    /\ markers[i].name.day = recs[j].DATE
                    /\ markers[i].LEVEL = recs[j].LEVEL
                    /\ \A k \in present : recs[k].DATE <= recs[j].DATE
    /\ widgets = <<"graph", "table", "html", "map">> =>
          Len(markers) = Len(stations)

\* The map shows a station whose only present value is the second of three
\* records: the first row of its series is missing, the last was trimmed.
C18_Witness ==
    /\ widgets = <<"graph", "table", "html", "map">>
    /\ \E i \in 1..Len(markers) :
          /\ Len(hydro_data[stations[i]]) = 3
          /\ PresentAt(hydro_data[stations[i]]) = {2}
          /\ markers[i].name.day = 2

\* The identifiers of the candidates are pairwise different.
UniqueCandidates ==
    \A i, j \in 1..Len(Candidates) :
        Candidates[i].STATION_NUMBER = Candidates[j].STATION_NUMBER => i = j

Completed == pc \in {"render", "failed"}

\* C20: the trim loop is entered only with a present value, its test always
\* reads the last row of a non-empty frame, it removes at most (number of
\* records - 1) rows, and every run of selection and assembly completes.
C20_TrimTerminates ==
    /\ [](pc = "trim" =>
            LET recs == hydro_data[stations[station_idx]] IN
            /\ historical_data_df # <<>>
            /\ \E i \in 1..Len(historical_data_df) :
                  historical_data_df[i].LEVEL \in PresentLevels
            /\ Len(recs) - Len(historical_data_df) <= Len(recs) - 1)
    /\ <>Completed

\* The loop has removed all rows but one: (number of records - 1) removals.
C20_Witness ==
    /\ pc = "trim"
    /\ Len(hydro_data[stations[station_idx]]) = 3
    /\ Len(historical_data_df) = 1

\* The specified trim: trailing records without a value are removed until
\* the sequence is empty or ends with a present value.
RECURSIVE TrimFirst(_)
TrimFirst(recs) ==
    IF recs = <<>> THEN <<>>
    ELSE IF recs[Len(recs)].LEVEL \in PresentLevels THEN recs
    ELSE TrimFirst(SubSeq(recs, 1, Len(recs) - 1))

\* C21: for every processed station, the empty response included, the
\* code's order (all-missing test, then trim) gives the outcome of the
\* specified order (trim, then exclusion iff the trimmed sequence is empty):
\* the same decision and, for a kept station, the same series.
C21_TestThenTrimEqualsTrimThenTest ==
    AssemblyDone =>
        \A s \in DOMAIN hydro_data :
            LET trimmed == TrimFirst(hydro_data[s])
            IN  IF trimmed = <<>>
                THEN /\ s \in Elems(stations_without_data)
                     /\ s \notin DOMAIN hydrometric_data
                ELSE /\ s \notin Elems(stations_without_data)
                     /\ s \in DOMAIN hydrometric_data
                     /\ Len(hydrometric_data[s]) = Len(trimmed)
                     /\ \A i \in 1..Len(trimmed) :
                           hydrometric_data[s][i] = RowOf(trimmed[i])

\* One station without any record and one whose three records are all
\* missing are both excluded.
C21_Witness ==
    /\ AssemblyDone
    /\ \E s, t \in DOMAIN hydro_data :
          /\ hydro_data[s] = <<>>
          /\ Len(hydro_data[t]) = 3
          /\ PresentAt(hydro_data[t]) = {}
          /\ {s, t} \subseteq Elems(stations_without_data)

\* C22: at the rendering cells the station list is non-empty and each of
\* its stations is a key of hydrometric_data with a non-empty series, so the
\* lookups of the plot, the table, the latitudes and the markers are
\* defined.
C22_RenderingLookupsDefined ==
    pc = "render" =>
        /\ stations # <<>>
        /\ \A i \in 1..Len(stations) :
              /\ stations[i] \in DOMAIN hydrometric_data
              /\ hydrometric_data[stations[i]] # <<>>

\* The map is displayed after a removal: one station was excluded, the
\* other has its plot, its table and its marker.
C22_Witness ==
    /\ widgets = <<"graph", "table", "html", "map">>
    /\ Len(stations_without_data) = 1
    /\ Len(stations) = 1
    /\ Len(markers) = 1
    /\ fig[1].title = stations[1]
    /\ table[1].title = stations[1]

\* C23: the station list does not change while the assembly loop iterates
\* over it; the loop takes the stations of the selection one position after
\* the other, each once; a request is made only in the loop, without error,
\* for the station of the current position, which the selection returned;
\* the list shrinks only in the removal loop, after the assembly loop.
C23_StationsFixedDuringAssembly ==
    [][/\ pc \in {"fetch", "trim"} => stations' = stations
       /\ station_idx' # station_idx =>
             \/ pc = "assemble" /\ station_idx' = 1
             \/ /\ pc \in {"fetch", "trim"}
                /\ station_idx \in 1..Len(stations)
                /\ station_idx' = station_idx + 1
                /\ stations[station_idx] \in
                      DOMAIN hydrometric_data'
                         \cup Elems(stations_without_data')
       /\ hydro_data' # hydro_data =>
             /\ pc = "fetch"
             /\ error = "none"
             /\ station_idx \in 1..Len(stations)
             /\ stations = InBuffer(Candidates)
             /\ DOMAIN hydro_data' =
                   DOMAIN hydro_data \cup {stations[station_idx]}
       /\ pc = "fetch" /\ pc' = "remove" =>
             /\ station_idx = Len(stations) + 1
             /\ stations = InBuffer(Candidates)
             /\ Elems(stations) = DOMAIN hydro_data
             /\ Len(stations) >= Len(stations_without_data)
       /\ stations' # stations /\ pc \notin {"buffer", "select"} =>
             /\ pc = "remove"
             /\ station_idx = Len(InBuffer(Candidates)) + 1]_vars

\* The removal loop starts after both of two different stations were
\* processed, the first of them excluded.
C23_Witness ==
    /\ pc = "remove"
    /\ remove_idx = 1
    /\ Len(stations) = 2
    /\ stations[1] # stations[2]
    /\ stations_without_data = <<stations[1]>>
    /\ DOMAIN hydrometric_data = {stations[2]}
    /\ DOMAIN hydro_data = Elems(stations)

\* C24: for every buffer size the bounding box reaches at least
\* buffer * 0.009 degree north and south and buffer * 0.014 degree east and
\* west of the centre, and a station within the buffer distance of the
\* centre, at the documented conversions, is kept by the bounding box.
C24_BBoxCoversBuffer ==
    /\ bbox # <<>> =>
          LET b == params.buffer
              box == bbox[1]
          IN  /\ box.north - lat >= b * KmToLatitude
              /\ lat - box.south >= b * KmToLatitude
              /\ box.east - long >= b * KmToLongitude
              /\ long - box.west >= b * KmToLongitude
    /\ prefiltered # <<>> =>
          LET p == prefiltered[1]
              b == params.buffer
          IN  p.east_km * p.east_km + p.north_km * p.north_km <= b * b
                 => p.kept

\* With the buffer of 100 km, a station on the circle (60 km east, 80 km
\* north) was tested against the box and kept.
C24_Witness ==
    /\ params.buffer = 100
    /\ prefiltered = <<[east_km |-> 60, north_km |-> 80, kept |-> TRUE]>>
====
